---- MODULE Spec2Model ----
(***************************************************************************)
(* Map declutter engine (map_engine.py) and the before/after visualizer    *)
(* (visualizer.py): bounding boxes, prioritized map elements, the          *)
(* iterative repositioning loop of MapDeclutterEngine.resolve_clutter and  *)
(* the element loop of MapVisualizer.visualize_comparison.                 *)
(***************************************************************************)
EXTENDS Integers, Sequences, FiniteSets

\* ------------------------------------------------------------------ bounds
\* Largest number of elements handed to the engine.
MaxElems == 3
\* Largest number of resolve_clutter() calls made on one engine.
MaxCalls == 2

\* ------------------------------------------------------------- BoundingBox
BoundingBox(x, y, width, height) ==
    [x |-> x, y |-> y, width |-> width, height |-> height]

\* Edge-exclusive variant: boxes that only touch do not intersect.
intersects_strict(self, other) ==
    ~(  self.x + self.width <= other.x
     \/ other.x + other.width <= self.x
     \/ self.y + self.height <= other.y
     \/ other.y + other.height <= self.y)

intersects(self, other) ==
    ~(  self.x + self.width < other.x
     \/ other.x + other.width < self.x
     \/ self.y + self.height < other.y
     \/ other.y + other.height < self.y)

move(self, dx, dy) ==
    BoundingBox(self.x + dx, self.y + dy, self.width, self.height)

\* -------------------------------------------------------------- MapElement
\* Priority table with the river entry mistyped as a low priority.
PRIORITY_river_low(element_type) ==
    CASE element_type = "road"  -> 10
      [] element_type = "river" -> 1
      [] element_type = "label" -> 1
      [] element_type = "icon"  -> 2
      [] OTHER -> 0

\* MapElement.PRIORITY.get(element_type, 0)
PRIORITY(element_type) ==
    CASE element_type = "road"  -> 10
      [] element_type = "river" -> 10
      [] element_type = "label" -> 1
      [] element_type = "icon"  -> 2
      [] OTHER -> 0

MapElement(id, element_type, bbox) ==
    [id            |-> id,
     type          |-> element_type,
     bbox          |-> bbox,
     priority      |-> PRIORITY(element_type),
     movable       |-> PRIORITY(element_type) < 5,
     original_bbox |-> BoundingBox(bbox.x, bbox.y, bbox.width, bbox.height),
     moved         |-> FALSE]

\* ------------------------------------------------------ MapDeclutterEngine
\* Offsets with the first two candidates (up, down) exchanged.
MOVEMENT_OFFSETS_down_first ==
    << <<0, 15>>, <<0, -15>>, <<15, 0>>, <<-15, 0>>,
       <<15, -15>>, <<-15, -15>>, <<15, 15>>, <<-15, 15>> >>

MOVEMENT_OFFSETS ==
    << <<0, -15>>,    \* up
       <<0, 15>>,     \* down
       <<15, 0>>,     \* right
       <<-15, 0>>,    \* left
       <<15, -15>>,   \* diagonal top-right
       <<-15, -15>>,  \* diagonal top-left
       <<15, 15>>,    \* diagonal bottom-right
       <<-15, 15>> >> \* diagonal bottom-left

max_iterations == 10

\* Handles (indices into the element sequence) of the elements whose movable
\* flag is wantMovable, in sequence order: the list comprehensions of __init__.
RECURSIVE IndicesWhere(_, _, _)
IndicesWhere(els, wantMovable, k) ==
    IF k > Len(els) THEN <<>>
    ELSE (IF els[k].movable = wantMovable THEN <<k>> ELSE <<>>)
         \o IndicesWhere(els, wantMovable, k + 1)

detect_overlap(elem_a, elem_b) == intersects(elem_a.bbox, elem_b.bbox)

RECURSIVE find_overlaps_from(_, _, _)
find_overlaps_from(els, i, k) ==
    IF k > Len(els) THEN <<>>
    ELSE (IF els[k].id # els[i].id /\ detect_overlap(els[i], els[k])
          THEN <<k>> ELSE <<>>)
         \o find_overlaps_from(els, i, k + 1)

\* find_overlaps(element): handles of the overlapping elements, element order.
find_overlaps(els, i) == find_overlaps_from(els, i, 1)

\* Validity check that accepts every position.
_is_valid_position_always(els, fixed, bbox, element_id) == TRUE

\* Validity check against every other element, movable ones included.
_is_valid_position_all(els, fixed, bbox, element_id) ==
    \A k \in 1..Len(els) :
        els[k].id = element_id \/ ~intersects(bbox, els[k].bbox)

_is_valid_position(els, fixed, bbox, element_id) ==
    \A k \in 1..Len(fixed) : ~intersects(bbox, els[fixed[k]].bbox)

RECURSIVE _reposition_from(_, _, _, _)
_reposition_from(els, fixed, i, k) ==
    IF k > Len(MOVEMENT_OFFSETS) THEN <<>>
    ELSE LET candidate_bbox ==
                 move(els[i].bbox, MOVEMENT_OFFSETS[k][1], MOVEMENT_OFFSETS[k][2])
         IN  IF _is_valid_position(els, fixed, candidate_bbox, els[i].id)
             THEN <<candidate_bbox>>
             ELSE _reposition_from(els, fixed, i, k + 1)

\* _reposition_element(element): <<box>> for the new box, <<>> for None.
_reposition_element(els, fixed, i) == _reposition_from(els, fixed, i, 1)

\* Overlap list without the "not e.movable" filter.
fixed_overlaps_unfiltered(els, i) == find_overlaps(els, i)

\* overlaps = [e for e in self.find_overlaps(movable) if not e.movable]
fixed_overlaps(els, i) ==
    SelectSeq(find_overlaps(els, i), LAMBDA k : ~els[k].movable)

\* Repositioning attempted for every movable element, overlapping or not.
needs_reposition_always(overlaps) == TRUE

\* if overlaps:
needs_reposition(overlaps) == overlaps # <<>>

\* The commit sets moved and counts the repositioning but leaves bbox as it is.
process_movable_no_commit(st, fixed, i) ==
    IF fixed_overlaps(st.els, i) # <<>>
       /\ _reposition_element(st.els, fixed, i) # <<>>
    THEN [els |-> [st.els EXCEPT ![i].moved = TRUE], n |-> st.n + 1]
    ELSE st

\* One round of the body of "for movable in self.movable_elements".
\* st = [els, n]: the elements so far and the repositionings made so far.
process_movable(st, fixed, i) ==
    IF needs_reposition(fixed_overlaps(st.els, i))
    THEN LET new_bbox == _reposition_element(st.els, fixed, i)
         IN  IF new_bbox # <<>>
             THEN [els |-> [st.els EXCEPT ![i].bbox = new_bbox[1],
                                          ![i].moved = TRUE],
                   n   |-> st.n + 1]
             ELSE st
    ELSE st

RECURSIVE scan_movables(_, _, _, _)
scan_movables(st, fixed, movables, k) ==
    IF k > Len(movables) THEN st
    ELSE scan_movables(process_movable(st, fixed, movables[k]),
                       fixed, movables, k + 1)

\* Loop exit that ignores resolved_any (no early break).
loop_ends_no_break(it, any) == ~(it < max_iterations)

\* "if not resolved_any: break", else the while condition.
loop_ends(it, any) == ~any \/ ~(it < max_iterations)

\* ------------------------------------------------------------------- scenes
\* Elements a caller may hand to the engine: the demo map of
\* create_demo_map and a few more.
Pool ==
    { MapElement("road_1",  "road",  BoundingBox(20, 80, 160, 15)),
      MapElement("road_2",  "road",  BoundingBox(95, 20, 15, 160)),
      MapElement("river_1", "river", BoundingBox(130, 100, 60, 12)),
      MapElement("L1",      "label", BoundingBox(30, 83, 25, 12)),
      MapElement("L2",      "label", BoundingBox(98, 140, 25, 12)),
      MapElement("L3",      "label", BoundingBox(135, 102, 25, 10)),
      MapElement("I1",      "icon",  BoundingBox(100, 50, 12, 12)),
      MapElement("I2",      "icon",  BoundingBox(160, 103, 12, 10)),
      MapElement("river_2", "river", BoundingBox(170, 90, 12, 12)),
      MapElement("road_3",  "road",  BoundingBox(40, 80, 5, 18)),
      MapElement("I3",      "icon",  BoundingBox(97, 82, 10, 10)),
      MapElement("P1",      "park",  BoundingBox(35, 97, 25, 12)),
      MapElement("road_1",  "label", BoundingBox(30, 83, 25, 12)) }

\* -------------------------------------------------------------------- state
VARIABLES
    elements,          \* engine.elements (shared with the visualizer)
    fixed_elements,    \* engine.fixed_elements, as handles into elements
    movable_elements,  \* engine.movable_elements, as handles into elements
    pc,                \* "idle", "loop", "viz_for", "viz_draw"
    iteration,         \* resolve_clutter: iteration
    resolved_any,      \* resolve_clutter: resolved_any
    result,            \* value returned by the last resolve_clutter call
    calls,             \* resolve_clutter calls that have returned
    atCall,            \* elements as they were when the current call began
    passMoves,         \* repositionings made by each pass of the current call
    vi,                \* visualize_comparison: position of the first for loop
    original_bbox,     \* visualize_comparison: local original_bbox
    atViz              \* elements as they were when visualize_comparison began

vars == << elements, fixed_elements, movable_elements, pc, iteration,
           resolved_any, result, calls, atCall, passMoves, vi,
           original_bbox, atViz >>

\* MapDeclutterEngine.__init__ on a caller-supplied sequence.
Init ==
    /\ \E n \in 0..MaxElems : elements \in [1..n -> Pool]
    /\ fixed_elements = IndicesWhere(elements, FALSE, 1)
    /\ movable_elements = IndicesWhere(elements, TRUE, 1)
    /\ pc = "idle"
    /\ iteration = 0
    /\ resolved_any = FALSE
    /\ result = 0
    /\ calls = 0
    /\ atCall = <<>>
    /\ passMoves = <<>>
    /\ vi = 0
    /\ original_bbox = <<>>
    /\ atViz = <<>>

\* resolve_clutter(): entry, up to the while loop.
resolve_clutter ==
    /\ pc = "idle"
    /\ calls < MaxCalls
    /\ pc' = "loop"
    /\ iteration' = 0
    /\ resolved_any' = FALSE
    /\ atCall' = elements
    /\ passMoves' = <<>>
    /\ UNCHANGED << elements, fixed_elements, movable_elements, result, calls,
                    vi, original_bbox, atViz >>

\* One iteration of the while loop, and the return when the loop ends.
while_pass ==
    /\ pc = "loop"
    /\ LET st  == scan_movables([els |-> elements, n |-> 0],
                                fixed_elements, movable_elements, 1)
           it  == iteration + 1
           any == st.n > 0
       IN  /\ elements' = st.els
           /\ iteration' = it
           /\ resolved_any' = any
           /\ passMoves' = Append(passMoves, st.n)
           /\ IF loop_ends(it, any)
              THEN /\ pc' = "idle"
                   /\ result' = it
                   /\ calls' = calls + 1
              ELSE /\ pc' = "loop"
                   /\ UNCHANGED << result, calls >>
    /\ UNCHANGED << fixed_elements, movable_elements, atCall, vi,
                    original_bbox, atViz >>

\* visualize_comparison(): entry, up to the loop over the elements. As in
\* demo.py's main, the visualizer runs once resolve_clutter() has returned.
visualize_comparison ==
    /\ pc = "idle"
    /\ calls >= 1
    /\ pc' = "viz_for"
    /\ vi' = 1
    /\ atViz' = elements
    /\ UNCHANGED << elements, fixed_elements, movable_elements, iteration,
                    resolved_any, result, calls, atCall, passMoves,
                    original_bbox >>

\* A moved element: remember bbox, put original_bbox in its place, draw.
viz_swap ==
    /\ pc = "viz_for"
    /\ vi <= Len(elements)
    /\ elements[vi].moved
    /\ original_bbox' = <<elements[vi].bbox>>
    /\ elements' = [elements EXCEPT ![vi].bbox = elements[vi].original_bbox]
    /\ pc' = "viz_draw"
    /\ UNCHANGED << fixed_elements, movable_elements, iteration, resolved_any,
                    result, calls, atCall, passMoves, vi, atViz >>

\* draw_element has returned: put the remembered bbox back.
viz_restore ==
    /\ pc = "viz_draw"
    /\ elements' = [elements EXCEPT ![vi].bbox = original_bbox[1]]
    /\ original_bbox' = <<>>
    /\ vi' = vi + 1
    /\ pc' = "viz_for"
    /\ UNCHANGED << fixed_elements, movable_elements, iteration, resolved_any,
                    result, calls, atCall, passMoves, atViz >>

\* An element that was not moved is drawn where it is.
viz_draw_unmoved ==
    /\ pc = "viz_for"
    /\ vi <= Len(elements)
    /\ ~elements[vi].moved
    /\ vi' = vi + 1
    /\ UNCHANGED << elements, fixed_elements, movable_elements, pc, iteration,
                    resolved_any, result, calls, atCall, passMoves,
                    original_bbox, atViz >>

\* The rest of visualize_comparison only reads the elements.
viz_finish ==
    /\ pc = "viz_for"
    /\ vi > Len(elements)
    /\ pc' = "idle"
    /\ vi' = 0
    /\ UNCHANGED << elements, fixed_elements, movable_elements, iteration,
                    resolved_any, result, calls, atCall, passMoves,
                    original_bbox, atViz >>

Next ==
    \/ resolve_clutter
    \/ while_pass
    \/ visualize_comparison
    \/ viz_swap
    \/ viz_restore
    \/ viz_draw_unmoved
    \/ viz_finish

Spec == Init /\ [][Next]_vars

\* ------------------------------------------------------- claim vocabulary
Idx == DOMAIN elements

Movables == {i \in Idx : elements[i].movable}

DistinctIds ==
    \A i, j \in Idx : i # j => elements[i].id # elements[j].id

\* resolve_clutter() has returned at least once and nothing is running.
Returned == pc = "idle" /\ calls >= 1

FixedBoxes == {elements[j].bbox : j \in {k \in Idx : ~elements[k].movable}}

HitsFixed(b) == \E f \in FixedBoxes : intersects(b, f)

\* The eight translations in the order the claims list them.
ClaimedOrder ==
    << <<0, -15>>, <<0, 15>>, <<15, 0>>, <<-15, 0>>,
       <<15, -15>>, <<-15, -15>>, <<15, 15>>, <<-15, 15>> >>

Cand(b, k) == move(b, ClaimedOrder[k][1], ClaimedOrder[k][2])

AllEightFail(b) == \A k \in 1..8 : HitsFixed(Cand(b, k))

\* ----------------------------------------------------------------------- C1
\* C1: with pairwise-distinct ids, when resolve_clutter() has returned every
\* movable element either intersects no fixed element, or all eight
\* translations of its box intersect a fixed element and it is still where it
\* was when the call began.
C1_ClearOrStuck ==
    (Returned /\ DistinctIds) =>
        \A i \in Movables :
            \/ ~HitsFixed(elements[i].bbox)
            \/ /\ AllEightFail(elements[i].bbox)
               /\ elements[i].bbox = atCall[i].bbox

\* One element was moved clear of the fixed elements, another is boxed in.
C1_Witness ==
    /\ Returned
    /\ DistinctIds
    /\ \E i \in Movables :
           /\ elements[i].moved
           /\ HitsFixed(elements[i].original_bbox)
           /\ ~HitsFixed(elements[i].bbox)
    /\ \E j \in Movables :
           /\ HitsFixed(elements[j].bbox)
           /\ AllEightFail(elements[j].bbox)
           /\ elements[j].bbox = atCall[j].bbox

\* ----------------------------------------------------------------------- C2
\* C2: a call runs a bounded number of passes and returns: while the loop is
\* running fewer than 10 passes have been executed; the value returned is in
\* 1..10, is the number of passes executed, and is below 10 exactly when some
\* pass made zero repositionings.
C2_ReturnValue ==
    /\ pc = "loop" =>
           /\ iteration < max_iterations
           /\ Len(passMoves) = iteration
    /\ Returned =>
           /\ result \in 1..max_iterations
           /\ result = Len(passMoves)
           /\ (result < max_iterations)
                  <=> (\E k \in 1..Len(passMoves) : passMoves[k] = 0)

\* A call that made a productive pass and then a pass with no repositioning.
C2_Witness ==
    /\ Returned
    /\ result = 2
    /\ passMoves[1] > 0
    /\ passMoves[2] = 0

\* ----------------------------------------------------------------------- C3
\* C3: in every state, whatever the number of calls, the fixed elements
\* (priority >= 5) are roads and rivers, and each road or river is exactly
\* the element that was constructed: bbox equal to the construction-time
\* bbox, moved false.
C3_FixedUntouched ==
    \A i \in Idx :
        /\ elements[i].priority >= 5 => elements[i].type \in {"road", "river"}
        /\ elements[i].type \in {"road", "river"} =>
               /\ ~elements[i].moved
               /\ elements[i].bbox = elements[i].original_bbox
               /\ elements[i] \in Pool

\* After the last call, a fixed element that a movable element overlapped,
\* the movable element having been moved away.
C3_Witness ==
    /\ Returned
    /\ calls = MaxCalls
    /\ \E i \in Idx \ Movables : \E j \in Movables :
           /\ elements[j].moved
           /\ intersects(elements[i].bbox, elements[j].original_bbox)

\* ----------------------------------------------------------------------- C4
RoadBox == BoundingBox(20, 80, 160, 15)

LabelBox == BoundingBox(30, 83, 25, 12)

DemoFixedBoxes ==
    {RoadBox, BoundingBox(95, 20, 15, 160), BoundingBox(130, 100, 60, 12)}

\* Element i is the label of the scenario: a label constructed at
\* (30,83,25,12), the road (20,80,160,15) present, every fixed element one
\* of the demo map's.
Scenario(i) ==
    /\ DistinctIds
    /\ elements[i].type = "label"
    /\ elements[i].original_bbox = LabelBox
    /\ \E r \in Idx : elements[r].type = "road" /\ elements[r].bbox = RoadBox
    /\ FixedBoxes \subseteq DemoFixedBoxes

\* C4 as stated: the label ends at (30,68,25,12), the "up" candidate, moved.
C4_Original ==
    Returned =>
        \A i \in Idx : Scenario(i) =>
            /\ elements[i].bbox = BoundingBox(30, 68, 25, 12)
            /\ elements[i].moved

\* C4: in the scenario the label ends at (30,98,25,12), the "down" candidate
\* (0,15), with moved true: the "up" candidate (30,68,25,12) still touches
\* the road's top edge (68 + 12 = 80) and touching counts as intersecting;
\* "down" is the first candidate clear of the road.
C4_MovesDown ==
    Returned =>
        \A i \in Idx : Scenario(i) =>
            /\ intersects(BoundingBox(30, 68, 25, 12), RoadBox)
            /\ elements[i].bbox = BoundingBox(30, 98, 25, 12)
            /\ elements[i].bbox = move(LabelBox, 0, 15)
            /\ elements[i].moved

C4_Witness ==
    /\ Returned
    /\ Len(elements) = 2
    /\ \E i \in Idx : Scenario(i) /\ elements[i].moved

\* ----------------------------------------------------------------------- C5
\* Element i intersected no fixed element when the current call began.
ClearAtCall(i) ==
    \A j \in Idx : atCall[j].movable \/ ~intersects(atCall[i].bbox, atCall[j].bbox)

C6_SecondCallIdle ==
    /\ (pc = "loop" /\ calls >= 1) => elements = atCall
    /\ (Returned /\ calls >= 2) =>
           /\ result = 1
           /\ passMoves = <<0>>
           /\ elements = atCall

\* A second call has returned on an engine whose first call moved an element
\* and left another one overlapping a fixed element.
C6_Witness ==
    /\ Returned
    /\ calls >= 2
    /\ \E i \in Movables : elements[i].moved
    /\ \E j \in Movables : HitsFixed(elements[j].bbox)

\* ----------------------------------------------------------------------- C7
\* C7: at every step of visualize_comparison each element's bbox,
\* original_bbox and moved flag are what they were when the call started.
C7_VizReadsOnly ==
    pc \in {"viz_for", "viz_draw"} =>
        \A i \in Idx :
            /\ elements[i].bbox = atViz[i].bbox
            /\ elements[i].original_bbox = atViz[i].original_bbox
            /\ elements[i].moved = atViz[i].moved

\* ----------------------------------------------------------------------- C8
\* Element i overlaps a fixed element as the pass sees it (find_overlaps
\* leaves out the elements carrying i's id).
SeesFixedOverlap(i) ==
    \E j \in Idx :
        /\ elements[j].id # elements[i].id
        /\ ~elements[j].movable
        /\ intersects(elements[i].bbox, elements[j].bbox)

\* C8: in a pass, a movable element that overlaps a fixed element gets the
\* first of the eight translations of its current box, in the listed order,
\* that intersects no fixed element (every earlier one intersects one), with
\* width and height kept and moved set; when all eight intersect a fixed
\* element its bbox and moved flag stay as they are.
C8_FirstValidCandidate ==
    [][ pc = "loop" =>
          \A i \in Movables : SeesFixedOverlap(i) =>
              LET b == elements[i].bbox
              IN  \/ \E k \in 1..8 :
                         /\ elements'[i].bbox = Cand(b, k)
                         /\ elements'[i].bbox.width = b.width
                         /\ elements'[i].bbox.height = b.height
                         /\ elements'[i].moved
                         /\ ~HitsFixed(Cand(b, k))
                         /\ \A j \in 1..(k - 1) : HitsFixed(Cand(b, j))
                  \/ /\ AllEightFail(b)
                     /\ elements'[i] = elements[i] ]_vars

\* After a call: one element found no candidate and stayed, another was
\* moved to a candidate that is not the first one tried.
C8_Witness ==
    /\ Returned
    /\ calls = 1
    /\ \E i \in Movables :
           /\ SeesFixedOverlap(i)
           /\ AllEightFail(elements[i].bbox)
           /\ ~elements[i].moved
    /\ \E j \in Movables : \E k \in 2..8 :
           /\ elements[j].moved
           /\ elements[j].bbox = Cand(elements[j].original_bbox, k)
           /\ \A m \in 1..(k - 1) : HitsFixed(Cand(elements[j].original_bbox, m))

\* ----------------------------------------------------------------------- C9
\* Number of the call that is running or has last returned.
CallNo == IF pc = "loop" THEN calls + 1 ELSE calls

\* C9: an element is relocated at most once in the life of an engine, in the
\* first pass of the first call: an unmoved element is at original_bbox, a
\* moved one at original_bbox translated by one of the eight offsets; no
\* pass after the first pass of the first call repositions anything; the
\* first call returns 1 when nothing was moved and 2 otherwise, and no call
\* reaches the cap.
C9_MovedAtMostOnce ==
    /\ pc # "viz_draw" =>
           \A i \in Idx :
               /\ ~elements[i].moved => elements[i].bbox = elements[i].original_bbox
               /\ elements[i].moved =>
                      \E k \in 1..8 :
                          elements[i].bbox = Cand(elements[i].original_bbox, k)
    /\ \A k \in 1..Len(passMoves) : (k >= 2 \/ CallNo >= 2) => passMoves[k] = 0
    /\ Returned =>
           /\ result < max_iterations
           /\ calls = 1 =>
                  result = IF \E i \in Idx : elements[i].moved THEN 2 ELSE 1

\* The first call returned 2 having moved an element diagonally.
C9_Witness ==
    /\ Returned
    /\ calls = 1
    /\ result = 2
    /\ \E i \in Idx : \E k \in 5..8 :
           /\ elements[i].moved
           /\ elements[i].bbox = Cand(elements[i].original_bbox, k)

\* ---------------------------------------------------------------------- C10
\* The final <<bbox, moved>> of a movable element constructed at box b when
\* the fixed elements occupy the set of boxes F: a function of b and F alone.
Outcome(b, F) ==
    LET hits(c) == \E f \in F : intersects(c, f)
        valid   == {k \in 1..8 : ~hits(Cand(b, k))}
    IN  IF ~hits(b) \/ valid = {}
        THEN <<b, FALSE>>
        ELSE <<Cand(b, CHOOSE k \in valid : \A m \in valid : k <= m), TRUE>>

\* C10: with pairwise-distinct ids, once resolve_clutter() has returned each
\* movable element's bbox and moved flag are determined by its own initial
\* bbox and the set of fixed boxes, whatever the order of the elements and
\* whatever other movable elements there are.
C10_OrderIndependent ==
    (Returned /\ DistinctIds) =>
        \A i \in Movables :
            << elements[i].bbox, elements[i].moved >>
                = Outcome(elements[i].original_bbox, FixedBoxes)

\* A moved element that came to rest on top of another movable element
\* listed before it, and one listed after it.
C10_Witness ==
    /\ Returned
    /\ DistinctIds
    /\ \E i, j \in Movables :
           /\ i # j
           /\ elements[i].moved
           /\ intersects(elements[i].bbox, elements[j].bbox)

====
